---- MODULE Spec2Model ----
(***************************************************************************)
(* A model of the elm-language-server package dependency solver            *)
(* (src/util/elmUtils.ts), its version-constraint algebra, and the move    *)
(* refactoring handler (src/providers/handlers/moveRefactoringHandler.ts)  *)
(* and the hover provider (src/providers/hoverProvider.ts).                *)
(*                                                                         *)
(* A version is the triple <<major, minor, patch>> of the three numeric    *)
(* fields of its string form ("1.0.1" is <<1, 0, 1>>): versionCompare      *)
(* reads nothing else of an IVersion.  A value that may be undefined is a  *)
(* set with at most one element: {} is undefined, {x} is x.  A             *)
(* ReadonlyMap<string, T> is a function from every package name to such a  *)
(* set: m[k] = {} when the map has no key k.                               *)
(***************************************************************************)
EXTENDS Integers, Sequences, FiniteSets, TLC

VARIABLES
    ca, cb, cc,      \* constraint algebra: the three constraints given
    ires,            \* constraint algebra: the intersections computed
    packageCache,    \* solver: package name -> list of releases
    requests,        \* solver: the root maps solveDependencies is called on
    runs,            \* solver: what each finished call returned
    stack,           \* solver: the frames of solveDependenciesWorker
    ret,             \* solver: <<r>> while a worker's result r is returned
    moveRequest,     \* move: the request and what the workspace holds for it
    moveHandled,     \* move: handleMoveRequest has run on moveRequest
    applyEditCalls,  \* move: the calls of connection.workspace.applyEdit
    exposeCalls,     \* move: the calls of RefactorEditUtils.exposeValueInModule
    hoverRequest,    \* hover: the request and what the workspace holds for it
    hoverResults     \* hover: what each handleHoverRequest call returned

algVars == <<ca, cb, cc, ires>>

solverVars == <<packageCache, requests, runs, stack, ret>>

moveVars == <<moveRequest, moveHandled, applyEditCalls, exposeCalls>>

hoverVars == <<hoverRequest, hoverResults>>

vars == <<ca, cb, cc, ires, packageCache, requests, runs, stack, ret,
          moveRequest, moveHandled, applyEditCalls, exposeCalls,
          hoverRequest, hoverResults>>

----------------------------------------------------------------------------
(* Bounds *)

\* The constraint algebra is explored over the first NumVersions versions
\* of VersionList.
NumVersions == 4

VersionList ==
    << <<1, 0, 0>>, <<1, 0, 1>>, <<1, 1, 0>>, <<2, 0, 0>>,
       <<2, 0, 1>>, <<2, 1, 0>>, <<3, 0, 0>> >>

AlgVersions == { VersionList[i] : i \in 1..NumVersions }

Operators == {"<", "<="}

\* Every IConstraint parseContraint can return over AlgVersions: any lower,
\* any upper, any pair of operators.
AlgConstraints ==
    [lower : AlgVersions, upper : AlgVersions,
     lowerOperator : Operators, upperOperator : Operators]

----------------------------------------------------------------------------
(* Version and constraint algebra: src/util/elmUtils.ts 267-370 *)

Undefined == {}

Some(x) == {x}

Get(opt) == CHOOSE x \in opt : TRUE

versionCompare(a, b) ==
    IF a[1] > b[1] THEN 1
    ELSE IF b[1] > a[1] THEN -1
    ELSE IF a[2] > b[2] THEN 1
    ELSE IF b[2] > a[2] THEN -1
    ELSE IF a[3] > b[3] THEN 1
    ELSE IF b[3] > a[3] THEN -1
    ELSE 0

filterSemver(lower, upper, operator) ==
    LET currentCompare == versionCompare(lower, upper)
    IN  IF operator = "<="
        THEN currentCompare = -1 \/ currentCompare = 0
        ELSE currentCompare = -1

versionSatifiesConstraint(version, constraint) ==
    /\ filterSemver(constraint.lower, version, constraint.lowerOperator)
    /\ filterSemver(version, constraint.upper, constraint.upperOperator)

\* A wrong merge: on equal bounds the first constraint's operator is kept.
mergeFirst(op1, op2) == op1

merge(op1, op2) == IF op1 = "<" \/ op2 = "<" THEN "<" ELSE "<="

constraintIntersect(a, b) ==
    LET lowerCompare == versionCompare(a.lower, b.lower)
        newLower   == IF lowerCompare = -1 THEN b.lower ELSE a.lower
        newLowerOp == IF lowerCompare = -1 THEN b.lowerOperator
                      ELSE IF lowerCompare = 0
                      THEN merge(a.lowerOperator, b.lowerOperator)
                      ELSE a.lowerOperator
        upperCompare == versionCompare(a.upper, b.upper)
        newUpper   == IF upperCompare = 1 THEN b.upper ELSE a.upper
        newUpperOp == IF upperCompare = -1 THEN a.upperOperator
                      ELSE IF upperCompare = 0
                      THEN merge(a.upperOperator, b.upperOperator)
                      ELSE b.upperOperator
    IN  IF versionCompare(newLower, newUpper) # -1
        THEN Undefined
        ELSE Some([lower |-> newLower, upper |-> newUpper,
                   lowerOperator |-> newLowerOp,
                   upperOperator |-> newUpperOp])

\* constraintIntersect of two possibly undefined constraints: undefined
\* propagates.
IntersectOpt(x, y) ==
    IF x = Undefined \/ y = Undefined THEN Undefined
    ELSE constraintIntersect(Get(x), Get(y))

----------------------------------------------------------------------------
(* The dependency solver: src/util/elmUtils.ts 113-233 *)

\* Package names in the order Array.prototype.sort() gives them.
NameOrder == <<"P", "Q">>

Names == { NameOrder[i] : i \in 1..Len(NameOrder) }

NameRank(n) == CHOOSE i \in 1..Len(NameOrder) : NameOrder[i] = n

\* new Map(): no key.
EmptyMap == [n \in Names |-> Undefined]

Keys(m) == { n \in Names : m[n] # Undefined }

\* pickDep: the first key in sorted order (undefined when deps is empty);
\* restDeps is RestDeps below.
pickDep(deps) ==
    IF Keys(deps) = {} THEN Undefined
    ELSE LET firstDep ==
                 CHOOSE n \in Keys(deps) :
                     \A m \in Keys(deps) : NameRank(n) <= NameRank(m)
         IN  Some([name |-> firstDep, constraint |-> Get(deps[firstDep])])

RestDeps(deps, firstDep) == [deps EXCEPT ![firstDep] = Undefined]

\* A wrong combineDeps: on a key of both maps the first constraint is kept.
combineDepsKeepFirst(a, b) ==
    Some([key \in Names |-> IF a[key] # Undefined THEN a[key] ELSE b[key]])

combineDeps(a, b) ==
    IF \E key \in Names :
           /\ a[key] # Undefined
           /\ b[key] # Undefined
           /\ constraintIntersect(Get(a[key]), Get(b[key])) = Undefined
    THEN Undefined
    ELSE Some([key \in Names |->
                 IF a[key] # Undefined /\ b[key] # Undefined
                 THEN constraintIntersect(Get(a[key]), Get(b[key]))
                 ELSE IF a[key] # Undefined THEN a[key]
                 ELSE b[key]])

\* What the sort's comparison reads of a version: a.version < b.version
\* compares two objects, and each converts to the string "[object Object]".
ToPrimitive(version) == "[object Object]"

\* The comparator given to sort: a.version < b.version ? -1 :
\* a.version > b.version ? 1 : 0, on the converted operands.  Two equal
\* strings are neither < nor >.
compareReleases(a, b) ==
    IF ToPrimitive(a.version) = ToPrimitive(b.version) THEN 0
    ELSE versionCompare(a.version, b.version)

\* Array.prototype.sort with a comparator: a stable sort (node >= 12.9).
RECURSIVE InsertRelease(_, _)
InsertRelease(x, s) ==
    IF s = <<>> THEN <<x>>
    ELSE IF compareReleases(s[Len(s)], x) > 0
    THEN Append(InsertRelease(x, SubSeq(s, 1, Len(s) - 1)), s[Len(s)])
    ELSE Append(s, x)

RECURSIVE sortReleases(_)
sortReleases(s) ==
    IF s = <<>> THEN <<>>
    ELSE InsertRelease(s[Len(s)], sortReleases(SubSeq(s, 1, Len(s) - 1)))

reverse(s) == [i \in 1..Len(s) |-> s[Len(s) + 1 - i]]

\* A wrong candidate list: the solved version does not filter it.
candidatesUnfiltered(cache, dep, solutions) ==
    LET Satisfying(r) == versionSatifiesConstraint(r.version, dep.constraint)
    IN  reverse(sortReleases(SelectSeq(cache[dep.name], Satisfying)))

\* The candidates of lines 192-207: the releases that satisfy the
\* constraint (filter is SelectSeq), sorted, reversed, and cut to the
\* solved version if any.
candidates(cache, dep, solutions) ==
    LET Satisfying(r) == versionSatifiesConstraint(r.version, dep.constraint)
        all == reverse(sortReleases(SelectSeq(cache[dep.name], Satisfying)))
        solvedVersion == solutions[dep.name]
        IsSolved(r) == r.version = Get(solvedVersion)
    IN  IF solvedVersion # Undefined THEN SelectSeq(all, IsSolved) ELSE all

----------------------------------------------------------------------------
(* The constraint algebra as a state machine: three constraints are given, *)
(* the program intersects them.                                            *)

NotComputed == [done |-> FALSE, ab |-> {}, ba |-> {}, bc |-> {}, aa |-> {},
                ab_c |-> {}, a_bc |-> {}]

AlgIdle ==
    /\ ca = [lower |-> <<1, 0, 0>>, upper |-> <<2, 0, 0>>,
             lowerOperator |-> "<=", upperOperator |-> "<"]
    /\ cb = ca
    /\ cc = ca
    /\ ires = NotComputed

SolverIdle ==
    /\ packageCache = <<>>
    /\ requests = <<>>
    /\ runs = <<>>
    /\ stack = <<>>
    /\ ret = <<>>

MoveIdle ==
    /\ moveRequest = <<>>
    /\ moveHandled = FALSE
    /\ applyEditCalls = <<>>
    /\ exposeCalls = <<>>

HoverIdle ==
    /\ hoverRequest = <<>>
    /\ hoverResults = <<>>

AlgInit ==
    /\ ca \in AlgConstraints
    /\ cb \in AlgConstraints
    /\ cc \in AlgConstraints
    /\ ires = NotComputed
    /\ SolverIdle
    /\ MoveIdle
    /\ HoverIdle

Intersect ==
    /\ ~ires.done
    /\ ires' = [done |-> TRUE,
                ab   |-> constraintIntersect(ca, cb),
                ba   |-> constraintIntersect(cb, ca),
                bc   |-> constraintIntersect(cb, cc),
                aa   |-> constraintIntersect(ca, ca),
                ab_c |-> IntersectOpt(constraintIntersect(ca, cb), Some(cc)),
                a_bc |-> IntersectOpt(Some(ca), constraintIntersect(cb, cc))]
    /\ UNCHANGED <<ca, cb, cc>>
    /\ UNCHANGED solverVars
    /\ UNCHANGED moveVars
    /\ UNCHANGED hoverVars

AlgNext == Intersect

SpecAlg == AlgInit /\ [][AlgNext]_vars

----------------------------------------------------------------------------
(* The solver as a state machine.  solveDependencies is called on each map *)
(* of requests in turn; stack holds the active calls of                    *)
(* solveDependenciesWorker, the innermost last.  A frame's pc is "enter"   *)
(* (line 186), "loop" (the head of the for loop, line 209), "called" (in   *)
(* the recursive call of line 219) or "tail" (in the call of line 226).    *)

\* The call stack holds at most MaxDepth frames of the worker: one call
\* more throws RangeError (maximum call stack size exceeded).
MaxDepth == 6

Frame(deps, solutions) ==
    [deps |-> deps, solutions |-> solutions, pc |-> "enter",
     dep |-> Undefined, restDeps |-> EmptyMap, candidates |-> <<>>,
     candidate |-> Undefined]

Top == stack[Len(stack)]

Pop == SubSeq(stack, 1, Len(stack) - 1)

SetTop(frame) == [stack EXCEPT ![Len(stack)] = frame]

Running == stack # <<>> /\ ret = <<>>

\* solveDependencies, lines 124-128: the first call of the worker.
Solve ==
    /\ stack = <<>>
    /\ ret = <<>>
    /\ Len(runs) < Len(requests)
    /\ stack' = <<Frame(requests[Len(runs) + 1], EmptyMap)>>
    /\ UNCHANGED <<packageCache, requests, runs, ret>>
    /\ UNCHANGED algVars
    /\ UNCHANGED moveVars
    /\ UNCHANGED hoverVars

\* Lines 186-190: nothing is pending, the worker returns
\* {pending: deps, solutions}.
ReturnSolved ==
    /\ Running
    /\ Top.pc = "enter"
    /\ pickDep(Top.deps) = Undefined
    /\ ret' = <<Some([pending |-> Top.deps, solutions |-> Top.solutions])>>
    /\ stack' = Pop
    /\ UNCHANGED <<packageCache, requests, runs>>
    /\ UNCHANGED algVars
    /\ UNCHANGED moveVars
    /\ UNCHANGED hoverVars

\* Lines 186-207: a dependency is picked and its candidates are listed.
PickDep ==
    /\ Running
    /\ Top.pc = "enter"
    /\ pickDep(Top.deps) # Undefined
    /\ LET dep == Get(pickDep(Top.deps))
       IN  stack' = SetTop([Top EXCEPT
               !.pc = "loop",
               !.dep = Some(dep),
               !.restDeps = RestDeps(Top.deps, dep.name),
               !.candidates = candidates(packageCache, dep, Top.solutions)])
    /\ UNCHANGED <<packageCache, requests, runs, ret>>
    /\ UNCHANGED algVars
    /\ UNCHANGED moveVars
    /\ UNCHANGED hoverVars

\* Line 233: no candidate is left, the worker returns undefined.
ReturnUnsolved ==
    /\ Running
    /\ Top.pc = "loop"
    /\ Top.candidates = <<>>
    /\ ret' = <<Undefined>>
    /\ stack' = Pop
    /\ UNCHANGED <<packageCache, requests, runs>>
    /\ UNCHANGED algVars
    /\ UNCHANGED moveVars
    /\ UNCHANGED hoverVars

\* Lines 210-214: the candidate's dependencies do not combine with the
\* pending ones; the loop continues.
SkipCandidate ==
    /\ Running
    /\ Top.pc = "loop"
    /\ Top.candidates # <<>>
    /\ combineDeps(Top.restDeps, Head(Top.candidates).dependencies) = Undefined
    /\ stack' = SetTop([Top EXCEPT !.candidates = Tail(Top.candidates)])
    /\ UNCHANGED <<packageCache, requests, runs, ret>>
    /\ UNCHANGED algVars
    /\ UNCHANGED moveVars
    /\ UNCHANGED hoverVars

\* Lines 216-223: the candidate is put into the tentative solutions and the
\* worker calls itself.
Recurse ==
    /\ Running
    /\ Top.pc = "loop"
    /\ Top.candidates # <<>>
    /\ Len(stack) < MaxDepth
    /\ LET candidate == Head(Top.candidates)
           tentativeDeps == combineDeps(Top.restDeps, candidate.dependencies)
           tentativeSolutions ==
               [Top.solutions EXCEPT
                   ![Get(Top.dep).name] = Some(candidate.version)]
       IN  /\ tentativeDeps # Undefined
           /\ stack' = Append(
                  SetTop([Top EXCEPT !.pc = "called",
                                     !.candidate = Some(candidate),
                                     !.candidates = Tail(Top.candidates)]),
                  Frame(Get(tentativeDeps), tentativeSolutions))
    /\ UNCHANGED <<packageCache, requests, runs, ret>>
    /\ UNCHANGED algVars
    /\ UNCHANGED moveVars
    /\ UNCHANGED hoverVars

\* The call of line 219 with the call stack full: RangeError unwinds every
\* frame (nothing catches it) and solveDependencies throws.
StackOverflow ==
    /\ Running
    /\ Top.pc = "loop"
    /\ Top.candidates # <<>>
    /\ Len(stack) >= MaxDepth
    /\ combineDeps(Top.restDeps, Head(Top.candidates).dependencies) # Undefined
    /\ stack' = <<>>
    /\ runs' = Append(runs, [kind |-> "RangeError", solutions |-> EmptyMap])
    /\ UNCHANGED <<packageCache, requests, ret>>
    /\ UNCHANGED algVars
    /\ UNCHANGED moveVars
    /\ UNCHANGED hoverVars

\* Lines 225-231: the recursive call returned a result; the worker calls
\* itself on result.pending and result.solutions.
TailCall ==
    /\ stack # <<>>
    /\ ret # <<>>
    /\ Top.pc = "called"
    /\ ret[1] # Undefined
    /\ Len(stack) < MaxDepth
    /\ stack' = Append(SetTop([Top EXCEPT !.pc = "tail"]),
                       Frame(Get(ret[1]).pending, Get(ret[1]).solutions))
    /\ ret' = <<>>
    /\ UNCHANGED <<packageCache, requests, runs>>
    /\ UNCHANGED algVars
    /\ UNCHANGED moveVars
    /\ UNCHANGED hoverVars

\* Line 225: the recursive call returned undefined; the loop goes on to the
\* next candidate.
NextCandidate ==
    /\ stack # <<>>
    /\ ret # <<>>
    /\ Top.pc = "called"
    /\ ret[1] = Undefined
    /\ stack' = SetTop([Top EXCEPT !.pc = "loop"])
    /\ ret' = <<>>
    /\ UNCHANGED <<packageCache, requests, runs>>
    /\ UNCHANGED algVars
    /\ UNCHANGED moveVars
    /\ UNCHANGED hoverVars

\* Line 226: the worker returns what its tail call returned.
ReturnTail ==
    /\ stack # <<>>
    /\ ret # <<>>
    /\ Top.pc = "tail"
    /\ stack' = Pop
    /\ UNCHANGED <<packageCache, requests, runs, ret>>
    /\ UNCHANGED algVars
    /\ UNCHANGED moveVars
    /\ UNCHANGED hoverVars

\* Lines 130-133: solveDependencies returns result.solutions, or undefined.
Finish ==
    /\ stack = <<>>
    /\ ret # <<>>
    /\ runs' = Append(runs,
           IF ret[1] # Undefined
           THEN [kind |-> "solution", solutions |-> Get(ret[1]).solutions]
           ELSE [kind |-> "undefined", solutions |-> EmptyMap])
    /\ ret' = <<>>
    /\ UNCHANGED <<packageCache, requests, stack>>
    /\ UNCHANGED algVars
    /\ UNCHANGED moveVars
    /\ UNCHANGED hoverVars

SolverNext ==
    \/ Solve
    \/ ReturnSolved
    \/ PickDep
    \/ ReturnUnsolved
    \/ SkipCandidate
    \/ Recurse
    \/ StackOverflow
    \/ TailCall
    \/ NextCandidate
    \/ ReturnTail
    \/ Finish

----------------------------------------------------------------------------
(* The package caches and root maps the solver is run on. *)

V100 == <<1, 0, 0>>

V101 == <<1, 0, 1>>

V200 == <<2, 0, 0>>

Constraint(lower, lowerOperator, upperOperator, upper) ==
    [lower |-> lower, upper |-> upper,
     lowerOperator |-> lowerOperator, upperOperator |-> upperOperator]

\* The constraints of root maps and releases: each has lower < upper.
PoolConstraints ==
    { Constraint(V100, "<=", "<", V200),    \* 1.0.0 <= v < 2.0.0
      Constraint(V100, "<=", "<=", V101),   \* 1.0.0 <= v <= 1.0.1
      Constraint(V101, "<=", "<", V200),    \* 1.0.1 <= v < 2.0.0
      Constraint(V100, "<", "<", V200),     \* 1.0.0 < v < 2.0.0
      Constraint(V100, "<=", "<", V101) }   \* 1.0.0 <= v < 1.0.1

DepChoices == {Undefined} \cup { Some(c) : c \in PoolConstraints }

\* A release of a package that depends on package `on` (or on nothing).
Release(version, on, constraint) ==
    [version |-> version,
     dependencies |-> [EmptyMap EXCEPT ![on] = constraint]]

\* The releases of P: 1.0.0 and 1.0.1 in either order, each depending on Q
\* or on nothing.
PReleaseLists ==
    { << Release(order[1], "Q", d1), Release(order[2], "Q", d2) >> :
        order \in { <<V100, V101>>, <<V101, V100>> },
        d1 \in DepChoices, d2 \in DepChoices }

\* The releases of Q: 1.0.1 alone or after 1.0.0, each depending on P or on
\* nothing.
QReleaseLists ==
    { << Release(V101, "P", d) >> : d \in DepChoices }
    \cup
    { << Release(V100, "P", d1), Release(V101, "P", d2) >> :
        d1 \in DepChoices, d2 \in DepChoices }

Caches == { [n \in Names |-> IF n = "P" THEN p ELSE q] :
                p \in PReleaseLists, q \in QReleaseLists }

\* Root maps: P constrained, Q constrained or absent.
RootMaps == { [n \in Names |-> IF n = "P" THEN Some(c) ELSE d] :
                c \in PoolConstraints, d \in DepChoices }

SolverInit ==
    /\ packageCache \in Caches
    /\ \E deps \in RootMaps : requests = <<deps>>
    /\ runs = <<>>
    /\ stack = <<>>
    /\ ret = <<>>
    /\ AlgIdle
    /\ MoveIdle
    /\ HoverIdle

Spec == SolverInit /\ [][SolverNext]_vars

----------------------------------------------------------------------------
(* The move refactoring:                                                   *)
(* src/providers/handlers/moveRefactoringHandler.ts 63-234                 *)
(*                                                                         *)
(* A request is params with what the workspace holds when it is handled:   *)
(* the trees of the forest, the node at the position, the module names,    *)
(* the references References.find returns and what each RefactorEditUtils  *)
(* call returns.  changes maps a URI to a list of edits: {} is no key.     *)

SourceUri == "Src.elm"

Uris == {"Src.elm", "Dst.elm", "Ref.elm"}

\* The node at the position: the types of its parent and grandparent
\* ("none" when there is none), the type of the grandparent's previous
\* named sibling, whether the parent has a next named sibling.
NodeShapes ==
    { [parentType |-> "function_declaration_left",
       grandparentType |-> "value_declaration",
       previousSiblingType |-> "type_annotation", hasNextSibling |-> FALSE],
      [parentType |-> "function_declaration_left",
       grandparentType |-> "value_declaration",
       previousSiblingType |-> "none", hasNextSibling |-> FALSE],
      [parentType |-> "type_annotation", grandparentType |-> "file",
       previousSiblingType |-> "none", hasNextSibling |-> TRUE],
      [parentType |-> "type_annotation", grandparentType |-> "file",
       previousSiblingType |-> "none", hasNextSibling |-> FALSE],
      [parentType |-> "function_call_expr", grandparentType |-> "let_in_expr",
       previousSiblingType |-> "none", hasNextSibling |-> TRUE],
      [parentType |-> "none", grandparentType |-> "none",
       previousSiblingType |-> "none", hasNextSibling |-> FALSE] }

\* What References.find can return: the declaration itself, its type
\* annotation and its entry in the exposing list of the source, and uses
\* in the three files.
AllReferences ==
    { [uri |-> "Src.elm", at |-> "declaration"],
      [uri |-> "Src.elm", at |-> "annotation"],
      [uri |-> "Src.elm", at |-> "exposed_value"],
      [uri |-> "Src.elm", at |-> "use"],
      [uri |-> "Dst.elm", at |-> "use"],
      [uri |-> "Ref.elm", at |-> "use"] }

Destinations ==
    { Undefined,
      Some([uri |-> "Dst.elm", name |-> "Dst.elm"]),
      Some([uri |-> "Dst.elm", name |-> ""]) }

MoveRequests ==
    [destination : Destinations,
     trees : SUBSET Uris,                 \* the URIs forest.getTree finds
     node : NodeShapes,
     moduleName : {Undefined, Some("Src")},
     destinationModuleName : {Undefined, Some("Dst")},
     references : SUBSET AllReferences,
     exposedInSource : BOOLEAN,           \* unexposedValueInModule gives an edit
     imported : BOOLEAN,                  \* removeValueFromImport gives an edit
     exposable : BOOLEAN,                 \* exposeValueInModule gives an edit
     importable : BOOLEAN]                \* addImport gives an edit

isTypeNode(node) == node.parentType = "type_annotation"

isDeclarationNode(node) == node.grandparentType = "value_declaration"

\* Lines 83-90: which node is the type annotation, if any.
typeNode(node) ==
    IF isDeclarationNode(node)
    THEN IF node.previousSiblingType = "type_annotation"
         THEN Some("previousNamedSibling") ELSE Undefined
    ELSE IF isTypeNode(node) THEN Some("parent") ELSE Undefined

\* Lines 92-96: which node is the declaration, if any.
declarationNode(node) ==
    IF isDeclarationNode(node) THEN Some("grandparent")
    ELSE IF isTypeNode(node)
    THEN IF node.hasNextSibling THEN Some("nextNamedSibling") ELSE Undefined
    ELSE Undefined

\* Lines 98-100: the node's text, or its parent's.
functionName(node) ==
    IF isTypeNode(node) THEN Some("f")
    ELSE IF node.parentType # "none" THEN Some("f") ELSE Undefined

\* Lines 155-161.
sourceHasReference(req) ==
    \E ref \in req.references :
        /\ ref.uri = SourceUri
        /\ ~(ref.at = "annotation" /\ typeNode(req.node) # Undefined)
        /\ ref.at # "declaration"
        /\ ref.at # "exposed_value"

referenceUris(req) == { ref.uri : ref \in req.references }

\* Lines 64-73 and 107-112: the conditions under which the handler goes on
\* to build edits.
Proceeds(req) ==
    /\ req.destination # Undefined
    /\ SourceUri \in req.trees
    /\ Get(req.destination).uri \in req.trees
    /\ declarationNode(req.node) # Undefined
    /\ functionName(req.node) # Undefined
    /\ req.moduleName # Undefined
    /\ req.destinationModuleName # Undefined

Push(changes, uri, edits) ==
    [changes EXCEPT ![uri] =
        Some((IF changes[uri] = Undefined THEN <<>> ELSE Get(changes[uri]))
             \o edits)]

\* Lines 121-229: the changes object handed to applyEdit.
Changes(req) ==
    LET dst == Get(req.destination).uri
        \* lines 121-142
        c0 == [u \in Uris |-> IF u = SourceUri \/ u = dst
                              THEN Some(<<>>) ELSE Undefined]
        c1 == Push(c0, SourceUri, << "del" >>)
        c2 == Push(c1, dst, << "insert" >>)
        \* lines 165-172
        c3 == IF req.exposedInSource
              THEN Push(c2, SourceUri, << "unexpose" >>) ELSE c2
        \* lines 174-193
        c4 == [u \in Uris |->
                 IF u \in referenceUris(req)
                 THEN Push(c3, u,
                        IF /\ u \in req.trees
                           /\ Get(req.destination).name # ""
                           /\ req.imported
                        THEN << "removeImport" >> ELSE <<>>)[u]
                 ELSE c3[u]]
        \* line 196
        remaining == referenceUris(req) \ {dst}
        \* lines 198-208
        c5 == IF remaining # {} /\ req.exposable
              THEN Push(c4, dst, << "expose" >>) ELSE c4
        \* lines 210-229
        c6 == [u \in Uris |->
                 IF /\ u \in remaining
                    /\ ~(u = SourceUri /\ ~sourceHasReference(req))
                    /\ u \in req.trees
                    /\ req.importable
                 THEN Push(c5, u, << "addImport" >>)[u]
                 ELSE c5[u]]
    IN  c6

\* A wrong handler result: one applyEdit call per file.
ApplyEditsPerFile(req) ==
    IF Proceeds(req)
    THEN << [changes |-> [u \in Uris |-> IF u = SourceUri
                                         THEN Changes(req)[u] ELSE Undefined]],
            [changes |-> [u \in Uris |-> IF u = SourceUri
                                         THEN Undefined ELSE Changes(req)[u]]] >>
    ELSE <<>>

\* The applyEdit calls handleMoveRequest makes on a request.
ApplyEdits(req) ==
    IF Proceeds(req) THEN << [changes |-> Changes(req)] >> ELSE <<>>

\* Lines 196-208: the calls of exposeValueInModule(destinationTree,
\* functionName) handleMoveRequest makes on a request: one when
\* referenceUris, the destination deleted from it, is not empty.
ExposeCalls(req) ==
    IF /\ Proceeds(req)
       /\ referenceUris(req) \ {Get(req.destination).uri} # {}
    THEN << [tree |-> Get(req.destination).uri,
             valueName |-> Get(functionName(req.node))] >>
    ELSE <<>>

HandleMoveRequest ==
    /\ ~moveHandled
    /\ moveHandled' = TRUE
    /\ applyEditCalls' = applyEditCalls \o ApplyEdits(moveRequest)
    /\ exposeCalls' = exposeCalls \o ExposeCalls(moveRequest)
    /\ UNCHANGED moveRequest
    /\ UNCHANGED algVars
    /\ UNCHANGED solverVars
    /\ UNCHANGED hoverVars

MoveInit ==
    /\ moveRequest \in MoveRequests
    /\ moveHandled = FALSE
    /\ applyEditCalls = <<>>
    /\ exposeCalls = <<>>
    /\ AlgIdle
    /\ SolverIdle
    /\ HoverIdle

MoveNext == HandleMoveRequest

SpecMove == MoveInit /\ [][MoveNext]_vars

----------------------------------------------------------------------------
(* Claims on the move refactoring (checked under SpecMove) *)

\* The edits of the refactor, as (file, edit) pairs: the deletion in the
\* source, the insertion in the destination, the unexpose and expose
\* edits, the import removals and the import additions.
RefactorEdits(req) ==
    LET dst == Get(req.destination).uri
        others == referenceUris(req) \ {dst}
    IN  { <<SourceUri, "del">>, <<dst, "insert">> }
        \cup (IF req.exposedInSource
              THEN { <<SourceUri, "unexpose">> } ELSE {})
        \cup { <<u, "removeImport">> : u \in
                   { w \in referenceUris(req) \cap req.trees :
                       req.imported /\ Get(req.destination).name # "" } }
        \cup (IF others # {} /\ req.exposable
              THEN { <<dst, "expose">> } ELSE {})
        \cup { <<u, "addImport">> : u \in
                   { w \in others \cap req.trees :
                       /\ req.importable
                       /\ (w = SourceUri => sourceHasReference(req)) } }

\* The (file, edit) pairs an applyEdit call carries.
CarriedEdits(call) ==
    UNION { { <<u, Get(call.changes[u])[k]>> :
                k \in 1..Len(Get(call.changes[u])) } :
            u \in { w \in Uris : call.changes[w] # Undefined } }

\* C6: handleMoveRequest calls applyEdit at most once; the call carries
\* every edit of the refactor; with the destination, a tree, the
\* declaration, the function name or a module name missing, no call is
\* made.
C6_AtomicMoveEdit ==
    moveHandled =>
        /\ Len(applyEditCalls) <= 1
        /\ ( \/ moveRequest.destination = Undefined
             \/ SourceUri \notin moveRequest.trees
             \/ Get(moveRequest.destination).uri \notin moveRequest.trees
             \/ declarationNode(moveRequest.node) = Undefined
             \/ functionName(moveRequest.node) = Undefined
             \/ moveRequest.moduleName = Undefined
             \/ moveRequest.destinationModuleName = Undefined )
           => applyEditCalls = <<>>
        /\ \A i \in 1..Len(applyEditCalls) :
               RefactorEdits(moveRequest) \subseteq
                   CarriedEdits(applyEditCalls[i])

\* C6's case: a move whose one applyEdit call carries edits for three
\* files: unexpose in the source, expose in the destination, an import
\* removed and an import added in a third file.
C6_Witness ==
    /\ moveHandled
    /\ Len(applyEditCalls) = 1
    /\ applyEditCalls[1].changes["Src.elm"] = Some(<< "del", "unexpose" >>)
    /\ applyEditCalls[1].changes["Dst.elm"] = Some(<< "insert", "expose" >>)
    /\ applyEditCalls[1].changes["Ref.elm"]
           = Some(<< "removeImport", "addImport" >>)

\* Some file other than the destination uses the function: it has a
\* reference that is not the moved declaration, its type annotation or
\* its entry in the exposing list of the source module.
UsedOutsideDestination(req) ==
    \E ref \in req.references :
        /\ ref.uri # Get(req.destination).uri
        /\ ref.at \notin {"declaration", "annotation", "exposed_value"}

\* Some file is given an add-import edit by an applyEdit call.
AddImportGiven ==
    \E i \in 1..Len(applyEditCalls) :
        \E pair \in CarriedEdits(applyEditCalls[i]) : pair[2] = "addImport"

\* The references hold the moved declaration itself, as every result of
\* a reference search on a definition does.
RoundTrip(req) ==
    [uri |-> SourceUri, at |-> "declaration"] \in req.references

\* C11: a move that goes on to build edits calls exposeValueInModule on
\* the destination if and only if some file other than the destination
\* still uses the function, and if and only if some file is given an
\* add-import edit.
C11_ExposeOnlyForExternalReferences ==
    (moveHandled /\ Proceeds(moveRequest) /\ RoundTrip(moveRequest)) =>
        /\ exposeCalls # <<>> <=> UsedOutsideDestination(moveRequest)
        /\ exposeCalls # <<>> <=> AddImportGiven

\* The half of C11 the handler keeps: a function used outside the
\* destination, or imported anywhere by the move, is exposed.
ExposedWhenUsedOutside ==
    (moveHandled /\ Proceeds(moveRequest)) =>
        /\ UsedOutsideDestination(moveRequest) => exposeCalls # <<>>
        /\ AddImportGiven => exposeCalls # <<>>

----------------------------------------------------------------------------
(* The hover provider: src/providers/hoverProvider.ts 32-110               *)
(*                                                                         *)
(* A request is params with what the workspace holds when it is handled:   *)
(* the URIs the forest has a tree for, the text of the node at the         *)
(* position, and the definition findDefinitionNodeByReferencingNode finds  *)
(* for it, with what each HintHelper call returns on that definition.      *)

\* src/util/elmUtils.ts 65-85: the one grammar-intrinsic type.  The grave
\* accents around List in the markdown are written '' here.
getEmptyTypes ==
    << [markdown |-> "An ''List'' is a list of items. Every item must be of the same type. Valid syntax for lists includes:\n\n    []\n    [42, 43]\n    [\"one\", \"two\", \"three\"]\n    [3.14, 0.1234]\n    ['a', 'Z', '0']\n\n    ",
        name |-> "List",
        symbolKind |-> "Enum"] >>

HoverUris == {"Main.elm", "Other.elm"}

\* nodeAtPosition.text
NodeTexts == {"List", "list", "Maybe", "view"}

NodeTypes == {"Function", "FunctionParameter", "AnonymousFunctionParameter",
              "CasePattern", "Type"}

\* A hint is the string HintHelper builds, or undefined.
Hints == {Undefined, Some(""), Some("view : Html msg")}

\* What findDefinitionNodeByReferencingNode returns: undefined, or a
\* definition, given with what createHint and
\* createHintFromFunctionParameter return on its node.
Definitions ==
    {Undefined} \cup
    { Some(d) : d \in [nodeType : NodeTypes, createHint : Hints,
                       createHintFromFunctionParameter : Hints] }

HoverRequests ==
    [uri : HoverUris,
     forest : SUBSET HoverUris,           \* the URIs forest.getByUri finds
     text : NodeTexts,
     definition : Definitions]

Markdown(value) == [contents |-> [kind |-> "markdown", value |-> value]]

\* Lines 88-110.  An empty string is falsy, as undefined is.
createMarkdownHoverFromDefinition(definitionNode) ==
    IF definitionNode = Undefined THEN Undefined
    ELSE LET d == Get(definitionNode)
             value == IF d.nodeType \in {"FunctionParameter",
                                         "AnonymousFunctionParameter",
                                         "CasePattern"}
                      THEN d.createHintFromFunctionParameter
                      ELSE d.createHint
         IN  IF value # Undefined /\ Get(value) # ""
             THEN Some(Markdown(Get(value)))
             ELSE Undefined

\* A wrong find: the predicate is the entry's name alone, which is truthy.
specialMatchAny(text) ==
    IF \E i \in 1..Len(getEmptyTypes) : getEmptyTypes[i].name # ""
    THEN Some(getEmptyTypes[CHOOSE i \in 1..Len(getEmptyTypes) :
                  /\ getEmptyTypes[i].name # ""
                  /\ \A j \in 1..(i - 1) : getEmptyTypes[j].name = ""])
    ELSE Undefined

\* Lines 73-75: getEmptyTypes().find((a) => a.name === nodeAtPosition.text),
\* the first entry of that name.
specialMatch(text) ==
    IF \E i \in 1..Len(getEmptyTypes) : getEmptyTypes[i].name = text
    THEN Some(getEmptyTypes[CHOOSE i \in 1..Len(getEmptyTypes) :
                  /\ getEmptyTypes[i].name = text
                  /\ \A j \in 1..(i - 1) : getEmptyTypes[j].name # text])
    ELSE Undefined

\* Lines 32-86: what handleHoverRequest returns.
handleHoverRequest(req) ==
    IF req.uri \notin req.forest THEN Undefined
    ELSE IF req.definition # Undefined
    THEN createMarkdownHoverFromDefinition(req.definition)
    ELSE IF specialMatch(req.text) # Undefined
    THEN Some(Markdown(Get(specialMatch(req.text)).markdown))
    ELSE Undefined

HandleHoverRequest ==
    /\ hoverResults = <<>>
    /\ hoverResults' = Append(hoverResults, handleHoverRequest(hoverRequest))
    /\ UNCHANGED hoverRequest
    /\ UNCHANGED algVars
    /\ UNCHANGED solverVars
    /\ UNCHANGED moveVars

HoverInit ==
    /\ hoverRequest \in HoverRequests
    /\ hoverResults = <<>>
    /\ AlgIdle
    /\ SolverIdle
    /\ MoveIdle

HoverNext == HandleHoverRequest

SpecHover == HoverInit /\ [][HoverNext]_vars

----------------------------------------------------------------------------
(* Claims on the hover provider (checked under SpecHover) *)

\* C12: the result of a hover request is the markdown of an entry of
\* getEmptyTypes if and only if the URI is in the forest, no definition is
\* found and the node's text is the entry's name; a URI not in the forest
\* gives undefined; a found definition never gives an entry's markdown.
C12_HoverFallbackToEmptyTypes ==
    \A k \in 1..Len(hoverResults) :
        /\ \A i \in 1..Len(getEmptyTypes) :
               hoverResults[k] = Some(Markdown(getEmptyTypes[i].markdown))
               <=> /\ hoverRequest.uri \in hoverRequest.forest
                   /\ hoverRequest.definition = Undefined
                   /\ hoverRequest.text = getEmptyTypes[i].name
        /\ hoverRequest.uri \notin hoverRequest.forest
               => hoverResults[k] = Undefined
        /\ hoverRequest.definition # Undefined
               => \A i \in 1..Len(getEmptyTypes) :
                      hoverResults[k]
                          # Some(Markdown(getEmptyTypes[i].markdown))

\* C12's case: a hover on List, of which no definition is found, in a file
\* of the forest, answered with the markdown of the List entry.
C12_Witness ==
    /\ Len(hoverResults) = 1
    /\ hoverRequest.uri \in hoverRequest.forest
    /\ hoverRequest.definition = Undefined
    /\ hoverRequest.text = "List"
    /\ hoverResults[1] = Some(Markdown(getEmptyTypes[1].markdown))

----------------------------------------------------------------------------
(* Claims on the solver (checked under Spec) *)

\* The release of package p with version v in the cache.
ReleaseOf(p, v) ==
    LET i == CHOOSE k \in 1..Len(packageCache[p]) :
                 packageCache[p][k].version = v
    IN  packageCache[p][i]

\* sol[q] exists and satisfies c, for every (q, c) of the map deps.
SatisfiesAll(sol, deps) ==
    \A q \in Keys(deps) :
        /\ sol[q] # Undefined
        /\ versionSatifiesConstraint(Get(sol[q]), Get(deps[q]))

\* sol satisfies the root map and the dependencies of every release it
\* selects.
Sound(sol, root) ==
    /\ SatisfiesAll(sol, root)
    /\ \A p \in Keys(sol) :
           SatisfiesAll(sol, ReleaseOf(p, Get(sol[p])).dependencies)

\* C1: a map returned by solveDependencies satisfies every root constraint
\* and every constraint that a release it selects declares.
C1_SolverSound ==
    \A i \in 1..Len(runs) :
        runs[i].kind = "solution" => Sound(runs[i].solutions, requests[i])

\* C1's case: a returned solution that selects Q only through the
\* dependency of the selected release of P, under a constraint that not
\* every release of Q satisfies.
C1_Witness ==
    /\ Len(runs) = 1
    /\ runs[1].kind = "solution"
    /\ requests[1]["Q"] = Undefined
    /\ runs[1].solutions["Q"] # Undefined
    /\ \E k \in 1..Len(packageCache["Q"]) :
           ~versionSatifiesConstraint(
               packageCache["Q"][k].version,
               Get(ReleaseOf("P", Get(runs[1].solutions["P"]))
                       .dependencies["Q"]))

CacheVersions ==
    UNION { { packageCache[n][k].version : k \in 1..Len(packageCache[n]) } :
            n \in Names }

\* The maps that give a package no version or a version the cache lists
\* for it.
Assignments ==
    { sol \in [Names -> SUBSET CacheVersions] :
        \A n \in Names :
            /\ Cardinality(sol[n]) <= 1
            /\ \A v \in sol[n] :
                   \E k \in 1..Len(packageCache[n]) :
                       packageCache[n][k].version = v }

SolutionExists(root) == \E sol \in Assignments : Sound(sol, root)

\* C2: solveDependencies returns undefined only when no assignment of one
\* version per package satisfies the root constraints and the constraints
\* of the releases it selects.
C2_SolverComplete ==
    \A i \in 1..Len(runs) :
        runs[i].kind = "undefined" => ~SolutionExists(requests[i])

Descending(releases) ==
    \A i, j \in 1..Len(releases) :
        i < j => versionCompare(releases[i].version, releases[j].version) = 1

\* The root map constrains P alone and no release of P that satisfies the
\* constraint depends on anything: the search succeeds for each of them.
EveryCandidateSolves(root) ==
    /\ Keys(root) = {"P"}
    /\ \A k \in 1..Len(packageCache["P"]) :
           versionSatifiesConstraint(packageCache["P"][k].version,
                                     Get(root["P"]))
               => Keys(packageCache["P"][k].dependencies) = {}

\* C3: the candidates of a picked package are tried in descending version
\* order whatever the order of the cache, and so the version returned for
\* the first root package is the highest for which the search succeeds.
C3_NewestFirst ==
    /\ \A i \in 1..Len(stack) : Descending(stack[i].candidates)
    /\ \A i \in 1..Len(runs) :
           (runs[i].kind = "solution" /\ EveryCandidateSolves(requests[i]))
               => \A k \in 1..Len(packageCache["P"]) :
                      versionSatifiesConstraint(
                          packageCache["P"][k].version,
                          Get(requests[i]["P"]))
                      => versionCompare(packageCache["P"][k].version,
                                        Get(runs[i].solutions["P"])) # 1

\* C5: every call of solveDependencies ends by returning a solution or
\* undefined.
C5_SolverTerminates ==
    \A i \in 1..Len(runs) : runs[i].kind \in {"solution", "undefined"}

\* A call stack that is full holds the same call twice: the recursion that
\* overflows it is one that never ends.
FullStackRepeats ==
    Len(stack) = MaxDepth =>
        \E i, j \in 1..Len(stack) :
            /\ i < j
            /\ stack[i].deps = stack[j].deps
            /\ stack[i].solutions = stack[j].solutions

Extends(bigger, smaller) ==
    \A p \in Keys(smaller) : bigger[p] = smaller[p]

\* C10: a version put into the partial solution is never revised: deeper
\* calls and returned solutions keep it, and when the package is picked
\* again the only candidate is that version, none if it does not satisfy
\* the pending constraint.
C10_SelectedNeverRevised ==
    /\ \A i, j \in 1..Len(stack) :
           i < j => Extends(stack[j].solutions, stack[i].solutions)
    /\ \A i \in 1..Len(stack) :
           stack[i].pc = "called" =>
               /\ i < Len(stack) =>
                      stack[i + 1].solutions[Get(stack[i].dep).name]
                          = Some(Get(stack[i].candidate).version)
               /\ (i = Len(stack) /\ ret # <<>> /\ ret[1] # Undefined) =>
                      /\ Extends(Get(ret[1]).solutions, stack[i].solutions)
                      /\ Get(ret[1]).solutions[Get(stack[i].dep).name]
                             = Some(Get(stack[i].candidate).version)
    /\ \A i \in 1..Len(stack) :
           LET f == stack[i]
           IN  (f.dep # Undefined /\ f.solutions[Get(f.dep).name] # Undefined)
               => LET solved == Get(f.solutions[Get(f.dep).name])
                  IN  /\ \A k \in 1..Len(f.candidates) :
                             f.candidates[k].version = solved
                      /\ f.candidate # Undefined
                             => Get(f.candidate).version = solved
                      /\ ~versionSatifiesConstraint(solved,
                                                    Get(f.dep).constraint)
                             => (f.candidates = <<>> /\ f.pc = "loop")

\* C10's case: P, already solved, is picked again under a constraint that
\* its solved version does not satisfy while another release of P does; no
\* candidate is left and the branch fails.
C10_Witness ==
    /\ stack # <<>>
    /\ Top.pc = "loop"
    /\ Top.dep # Undefined
    /\ Top.solutions[Get(Top.dep).name] # Undefined
    /\ ~versionSatifiesConstraint(Get(Top.solutions[Get(Top.dep).name]),
                                  Get(Top.dep).constraint)
    /\ \E k \in 1..Len(packageCache[Get(Top.dep).name]) :
           versionSatifiesConstraint(
               packageCache[Get(Top.dep).name][k].version,
               Get(Top.dep).constraint)
    /\ Top.candidates = <<>>

----------------------------------------------------------------------------
(* Monotonicity: solveDependencies on a root map with one constraint       *)
(* tightened, then on the root map itself (checked under SpecMono)         *)

\* The version next after v: nothing lies between v and <<major, minor,
\* patch + 1>>.
Succ(v) == <<v[1], v[2], v[3] + 1>>

\* The versions that satisfy c are those from LowestSatisfying(c) up to,
\* and not including, FirstAbove(c).
LowestSatisfying(c) == IF c.lowerOperator = "<=" THEN c.lower ELSE Succ(c.lower)

FirstAbove(c) == IF c.upperOperator = "<" THEN c.upper ELSE Succ(c.upper)

\* Every version (of all versions, not of a bounded set) that satisfies t
\* satisfies c.
Tighter(t, c) ==
    \/ versionCompare(LowestSatisfying(t), FirstAbove(t)) # -1
    \/ /\ versionCompare(LowestSatisfying(c), LowestSatisfying(t)) # 1
       /\ versionCompare(FirstAbove(t), FirstAbove(c)) # 1

MonoCaches ==
    { [n \in Names |-> IF n = "P" THEN p ELSE << Release(V101, "P", d) >>] :
        p \in PReleaseLists, d \in DepChoices }

MonoInit ==
    /\ packageCache \in MonoCaches
    /\ \E deps \in RootMaps, n \in Names, t \in PoolConstraints :
           /\ deps[n] # Undefined
           /\ t # Get(deps[n])
           /\ Tighter(t, Get(deps[n]))
           /\ requests = << [deps EXCEPT ![n] = Some(t)], deps >>
    /\ runs = <<>>
    /\ stack = <<>>
    /\ ret = <<>>
    /\ AlgIdle
    /\ MoveIdle
    /\ HoverIdle

SpecMono == MonoInit /\ [][SolverNext]_vars

\* C7: when solveDependencies returns a solution for the tightened root
\* map, it returns a solution for the root map too, and the solution for
\* the tightened map satisfies every constraint of the root map.
C7_SolverMonotone ==
    (Len(runs) = 2 /\ runs[1].kind = "solution") =>
        /\ runs[2].kind = "solution"
        /\ SatisfiesAll(runs[1].solutions, requests[2])

\* The second half of C7 alone.
TightSolutionSatisfiesLoose ==
    (Len(runs) >= 1 /\ runs[1].kind = "solution") =>
        SatisfiesAll(runs[1].solutions, requests[2])

----------------------------------------------------------------------------
(* Claims on the constraint algebra (checked under SpecAlg) *)

\* satisfies(v, c) for a possibly undefined c: undefined is satisfied by no
\* version.
SatisfiesOpt(v, c) == c # Undefined /\ versionSatifiesConstraint(v, Get(c))

WellFormed(c) == versionCompare(c.lower, c.upper) = -1

\* C4: for constraints c1, c2 with lower < upper each, a defined
\* constraintIntersect(c1, c2) is satisfied by exactly the versions that
\* satisfy both, and an undefined one means no version satisfies both.
C4_IntersectIsSetIntersection ==
    (ires.done /\ WellFormed(ca) /\ WellFormed(cb)) =>
        \A v \in AlgVersions :
            SatisfiesOpt(v, ires.ab) <=>
                (versionSatifiesConstraint(v, ca)
                 /\ versionSatifiesConstraint(v, cb))

\* The half of C4 that holds: a defined intersection is satisfied by
\* exactly the versions that satisfy both constraints.
DefinedIntersectionIsExact ==
    (ires.done /\ ires.ab # Undefined) =>
        \A v \in AlgVersions :
            versionSatifiesConstraint(v, Get(ires.ab)) <=>
                (versionSatifiesConstraint(v, ca)
                 /\ versionSatifiesConstraint(v, cb))

\* C8: constraintIntersect is commutative (both undefined, or the same
\* bounds, as versions, and the same operators) and associative (undefined
\* propagating).
C8_IntersectCommutativeAssociative ==
    ires.done => (ires.ab = ires.ba /\ ires.ab_c = ires.a_bc)

\* C8's case: three different constraints whose bounds tie (so operators
\* are merged) and whose three-way intersection is defined.
C8_Witness ==
    /\ ires.done
    /\ ca # cb /\ cb # cc /\ ca # cc
    /\ ca.lower = cb.lower /\ ca.lowerOperator # cb.lowerOperator
    /\ cb.upper = cc.upper /\ cb.upperOperator # cc.upperOperator
    /\ ires.ab_c # Undefined
    /\ ires.a_bc # Undefined

\* C9: for every constraint c parseContraint can return,
\* constraintIntersect(c, c) is satisfied by exactly the versions that
\* satisfy c.
C9_IntersectIdempotent ==
    ires.done =>
        \A v \in AlgVersions :
            SatisfiesOpt(v, ires.aa) <=> versionSatifiesConstraint(v, ca)

====
